---- MODULE Spec2Model ----
(***************************************************************************)
(* Flight search backend: the DataLoader store (load, enrichment, indices), *)
(* the connection rules, the date utilities and FlightSearchService.search. *)
(*                                                                         *)
(* Time is counted in seconds since 2024-01-01T00:00:00Z.  A string is a    *)
(* tuple of one-character strings where the code looks inside it (dates),   *)
(* and a TLA+ string where the code only compares it (airport codes).       *)
(***************************************************************************)
EXTENDS Integers, Sequences, FiniteSets, TLC

VARIABLES
    pc,                   \* position of the process: server.ts startServer
    loads,                \* number of loadData calls made so far
    flightData,           \* DataLoader.flightData (NULL before the first load)
    airportMap,           \* DataLoader.airportMap
    flightsWithMetadata,  \* DataLoader.flightsWithMetadata
    flightsByOrigin,      \* DataLoader.flightsByOrigin
    flightsByDestination, \* DataLoader.flightsByDestination
    flightsByDate,        \* DataLoader.flightsByDate
    response,             \* outcome of the search call being answered
    call,                 \* a call of a connection rule and what it returned
    httpResponse          \* what res.status(..).json(..) sent for the request being answered

vars == <<pc, loads, flightData, airportMap, flightsWithMetadata,
          flightsByOrigin, flightsByDestination, flightsByDate, response, call,
          httpResponse>>

store == <<airportMap, flightsWithMetadata, flightsByOrigin,
           flightsByDestination, flightsByDate>>

\* null and undefined
NULL == [null |-> TRUE]

(***************************************************************************)
(* Bounds of the model.                                                    *)
(***************************************************************************)
MaxFlights == 4
MaxLoads == 2

(***************************************************************************)
(* Strings the code looks inside: dates.                                   *)
(***************************************************************************)
Digits == {"0", "1", "2", "3", "4", "5", "6", "7", "8", "9"}

DigitVal(c) ==
    CASE c = "0" -> 0 [] c = "1" -> 1 [] c = "2" -> 2 [] c = "3" -> 3
      [] c = "4" -> 4 [] c = "5" -> 5 [] c = "6" -> 6 [] c = "7" -> 7
      [] c = "8" -> 8 [] c = "9" -> 9

D_2024_03_15 == <<"2", "0", "2", "4", "-", "0", "3", "-", "1", "5">>
D_2024_03_16 == <<"2", "0", "2", "4", "-", "0", "3", "-", "1", "6">>
D_2024_02_30 == <<"2", "0", "2", "4", "-", "0", "2", "-", "3", "0">>
D_2024_13_45 == <<"2", "0", "2", "4", "-", "1", "3", "-", "4", "5">>
D_2024_3_15  == <<"2", "0", "2", "4", "-", "3", "-", "1", "5">>

\* /^\d{4}-\d{2}-\d{2}$/.test(date)
MatchesDateRegex(s) ==
    /\ Len(s) = 10
    /\ s[5] = "-"
    /\ s[8] = "-"
    /\ \A i \in {1, 2, 3, 4, 6, 7, 9, 10} : s[i] \in Digits

YearOf(s)  == DigitVal(s[1]) * 1000 + DigitVal(s[2]) * 100
              + DigitVal(s[3]) * 10 + DigitVal(s[4])
MonthOf(s) == DigitVal(s[6]) * 10 + DigitVal(s[7])
DayOf(s)   == DigitVal(s[9]) * 10 + DigitVal(s[10])

IsLeapYear(y) == (y % 4 = 0 /\ y % 100 # 0) \/ y % 400 = 0

DaysInMonth(y, m) ==
    IF m = 2 THEN (IF IsLeapYear(y) THEN 29 ELSE 28)
    ELSE IF m \in {4, 6, 9, 11} THEN 30 ELSE 31

\* A date string of the form YYYY-MM-DD that names a day of the calendar.
IsCalendarDate(s) ==
    /\ MatchesDateRegex(s)
    /\ MonthOf(s) \in 1..12
    /\ DayOf(s) \in 1..DaysInMonth(YearOf(s), MonthOf(s))

RECURSIVE DaysBeforeMonth(_, _)
DaysBeforeMonth(y, m) ==
    IF m <= 1 THEN 0 ELSE DaysBeforeMonth(y, m - 1) + DaysInMonth(y, m - 1)

RECURSIVE DaysBeforeYear(_)
DaysBeforeYear(y) ==
    IF y <= 2024 THEN 0
    ELSE DaysBeforeYear(y - 1) + (IF IsLeapYear(y - 1) THEN 366 ELSE 365)

\* parseISO of "YYYY-MM-DDTHH:MM:SS": the wall-clock fields read as an instant.
\* A local timestamp is [date |-> the part before 'T', tod |-> seconds of the day].
parseISO(local) ==
    (DaysBeforeYear(YearOf(local.date))
       + DaysBeforeMonth(YearOf(local.date), MonthOf(local.date))
       + DayOf(local.date) - 1) * 86400 + local.tod

(***************************************************************************)
(* Time zones: the UTC offset (seconds) of a zone at an instant.            *)
(***************************************************************************)
\* Offsets before and after the 2024 spring change of each zone.
ZoneRule(tz) ==
    CASE tz = "America/New_York"    -> [std |-> -18000, dst |-> -14400, change |-> 69 * 86400 + 7 * 3600]
      [] tz = "America/Chicago"     -> [std |-> -21600, dst |-> -18000, change |-> 69 * 86400 + 8 * 3600]
      [] tz = "America/Los_Angeles" -> [std |-> -28800, dst |-> -25200, change |-> 69 * 86400 + 10 * 3600]
      [] tz = "Europe/London"       -> [std |-> 0,      dst |-> 3600,   change |-> 90 * 86400 + 1 * 3600]

TzOffset(tz, instant) ==
    IF instant < ZoneRule(tz).change THEN ZoneRule(tz).std ELSE ZoneRule(tz).dst

\* utcToZonedTime(date, tz): a Date whose own fields show the zone's wall clock.
utcToZonedTime(date, tz) == date + TzOffset(tz, date)

\* Variant: the wall clock is read as UTC, whatever the zone.
localTimeToUTC_NoZone(localTimeString, timezone) ==
    parseISO(localTimeString)

\* parseISO reads the string in the zone of the process and utcToZonedTime
\* writes the wall clock back in that zone, so the zone of the process cancels
\* in (zonedDate - date); the offset used is the one the zone has at `date`.
localTimeToUTC(localTimeString, timezone) ==
    LET date == parseISO(localTimeString)
        zonedDate == utcToZonedTime(date, timezone)
    IN  date - (zonedDate - date)

\* format(zonedDate, "yyyy-MM-dd'T'HH:mm:ssXXX", {timeZone}): the wall clock and
\* the offset the zone has at the formatted Date.
utcToLocalTime(utcDate, timezone) ==
    LET zonedDate == utcToZonedTime(utcDate, timezone)
    IN  [wall |-> zonedDate, offset |-> TzOffset(timezone, zonedDate)]

\* date-fns differenceInMinutes(a, b): (a - b) in minutes, truncated toward zero.
differenceInMinutes(a, b) ==
    IF a - b >= 0 THEN (a - b) \div 60 ELSE -((b - a) \div 60)

\* Variant: the duration is cut down to whole hours.
calculateDuration_WholeHours(departureUTC, arrivalUTC) ==
    (differenceInMinutes(arrivalUTC, departureUTC) \div 60) * 60

calculateDuration(departureUTC, arrivalUTC) ==
    differenceInMinutes(arrivalUTC, departureUTC)

calculateLayoverDuration(firstArrivalUTC, secondDepartureUTC) ==
    differenceInMinutes(secondDepartureUTC, firstArrivalUTC)

(***************************************************************************)
(* The dataset file: an airports list and a flights list.                  *)
(***************************************************************************)
Airport(code, city, country, timezone) ==
    [code |-> code, city |-> city, country |-> country, timezone |-> timezone]

AirportTable ==
    << Airport("JFK", "New York", "US", "America/New_York"),
       Airport("ORD", "Chicago", "US", "America/Chicago"),
       Airport("LAX", "Los Angeles", "US", "America/Los_Angeles"),
       Airport("LHR", "London", "GB", "Europe/London") >>

AirportCodes == {AirportTable[i].code : i \in 1..Len(AirportTable)}

\* A code no airport of the table has.
UnknownCode == "XXX"

\* "<date>T<h>:<m>:<s>" without offset.
LocalTime(date, h, m, s) == [date |-> date, tod |-> h * 3600 + m * 60 + s]

Flight(flightNumber, origin, destination, departureTime, arrivalTime, price) ==
    [flightNumber |-> flightNumber, origin |-> origin, destination |-> destination,
     departureTime |-> departureTime, arrivalTime |-> arrivalTime, price |-> price]

\* The flights a dataset file may list.
FlightPool ==
    << \* direct, JFK 08:30 -> LAX 11:45
       Flight("SP101", "JFK", "LAX", LocalTime(D_2024_03_15, 8, 30, 0),
              LocalTime(D_2024_03_15, 11, 45, 0), 299),
       \* JFK 08:00 -> ORD 09:15
       Flight("SP201", "JFK", "ORD", LocalTime(D_2024_03_15, 8, 0, 0),
              LocalTime(D_2024_03_15, 9, 15, 0), 120),
       \* ORD 10:00 -> LAX 12:30, 45 minutes after SP201 lands
       Flight("SP202", "ORD", "LAX", LocalTime(D_2024_03_15, 10, 0, 0),
              LocalTime(D_2024_03_15, 12, 30, 0), 180),
       \* ORD 09:45 -> LAX 12:00, 30 minutes after SP201 lands
       Flight("SP203", "ORD", "LAX", LocalTime(D_2024_03_15, 9, 45, 0),
              LocalTime(D_2024_03_15, 12, 0, 0), 150),
       \* JFK 07:00 -> LHR 19:00
       Flight("SP301", "JFK", "LHR", LocalTime(D_2024_03_15, 7, 0, 0),
              LocalTime(D_2024_03_15, 19, 0, 0), 450),
       \* ORD 10:15 -> LHR 23:00, 60 minutes after SP201 lands
       Flight("SP302", "ORD", "LHR", LocalTime(D_2024_03_15, 10, 15, 0),
              LocalTime(D_2024_03_15, 23, 0, 0), 500),
       \* LHR 01:00 (next day) -> LAX 05:00, 360 minutes after SP301 lands
       Flight("SP303", "LHR", "LAX", LocalTime(D_2024_03_16, 1, 0, 0),
              LocalTime(D_2024_03_16, 5, 0, 0), 600),
       \* JFK 06:00 -> JFK 07:00: origin and destination are the same airport
       Flight("SP401", "JFK", "JFK", LocalTime(D_2024_03_15, 6, 0, 0),
              LocalTime(D_2024_03_15, 7, 0, 0), 50),
       \* JFK 10:00 -> LAX 06:00: lands (13:00Z) before it departs (14:00Z)
       Flight("SP402", "JFK", "LAX", LocalTime(D_2024_03_15, 10, 0, 0),
              LocalTime(D_2024_03_15, 6, 0, 0), 90),
       \* destination absent from the airport table
       Flight("SP403", "JFK", UnknownCode, LocalTime(D_2024_03_15, 9, 0, 0),
              LocalTime(D_2024_03_15, 12, 0, 0), 75),
       \* LHR 00:30 (next day) -> ORD 03:00, 90 minutes after SP302 lands: a way
       \* back to ORD
       Flight("SP304", "LHR", "ORD", LocalTime(D_2024_03_16, 0, 30, 0),
              LocalTime(D_2024_03_16, 3, 0, 0), 520),
       \* JFK 07:00 -> JFK 06:00: same airport, and it lands (10:00Z) an hour
       \* before it departs (11:00Z), so it could connect to itself
       Flight("SP404", "JFK", "JFK", LocalTime(D_2024_03_15, 7, 0, 0),
              LocalTime(D_2024_03_15, 6, 0, 0), 40) >>

RECURSIVE Ascending(_)
Ascending(S) ==
    IF S = {} THEN <<>>
    ELSE LET m == CHOOSE x \in S : \A y \in S : x <= y
         IN  <<m>> \o Ascending(S \ {m})

Reverse(s) == [i \in 1..Len(s) |-> s[Len(s) + 1 - i]]

\* Flight lists of at most MaxFlights pool flights, in pool order or reversed.
FlightLists ==
    LET picks == {S \in SUBSET (1..Len(FlightPool)) : Cardinality(S) <= MaxFlights}
        asc(S) == [i \in 1..Cardinality(S) |-> FlightPool[Ascending(S)[i]]]
    IN  {asc(S) : S \in picks} \cup {Reverse(asc(S)) : S \in picks}

\* What the file at FLIGHTS_DATA_PATH may hold: text that is not JSON, or a
\* FlightData document.
MALFORMED == [malformed |-> TRUE]

DatasetFiles ==
    {MALFORMED} \cup {[airports |-> AirportTable, flights |-> fl] : fl \in FlightLists}

(***************************************************************************)
(* DataLoader                                                              *)
(***************************************************************************)
\* Map.get(k) || []
BucketOf(map, k) == IF k \in DOMAIN map THEN map[k] ELSE <<>>

\* Map.set(k, v)
MapSet(map, k, v) == [x \in DOMAIN map \cup {k} |-> IF x = k THEN v ELSE map[x]]

EmptyMap == [x \in {} |-> <<>>]

\* airports.forEach(airport => airportMap.set(airport.code, airport))
RECURSIVE SetAirports(_, _)
SetAirports(map, airports) ==
    IF airports = <<>> THEN map
    ELSE SetAirports(MapSet(map, Head(airports).code, Head(airports)), Tail(airports))

\* The throw of enrichFlightWithMetadata.
MissingAirport(amap, flight) ==
    flight.origin \notin DOMAIN amap \/ flight.destination \notin DOMAIN amap

\* Variant: the duration is the difference of the two wall clocks.
enrichFlightWithMetadata_WallClockDuration(amap, flight) ==
    LET originAirport == amap[flight.origin]
        destinationAirport == amap[flight.destination]
        departureDateUTC == localTimeToUTC(flight.departureTime, originAirport.timezone)
        arrivalDateUTC == localTimeToUTC(flight.arrivalTime, destinationAirport.timezone)
    IN  [flightNumber |-> flight.flightNumber,
         origin |-> flight.origin,
         destination |-> flight.destination,
         departureTime |-> flight.departureTime,
         arrivalTime |-> flight.arrivalTime,
         price |-> flight.price,
         originAirport |-> originAirport,
         destinationAirport |-> destinationAirport,
         departureDateUTC |-> departureDateUTC,
         arrivalDateUTC |-> arrivalDateUTC,
         durationMinutes |-> calculateDuration(parseISO(flight.departureTime),
                                               parseISO(flight.arrivalTime))]

enrichFlightWithMetadata(amap, flight) ==
    LET originAirport == amap[flight.origin]
        destinationAirport == amap[flight.destination]
        departureDateUTC == localTimeToUTC(flight.departureTime, originAirport.timezone)
        arrivalDateUTC == localTimeToUTC(flight.arrivalTime, destinationAirport.timezone)
    IN  [flightNumber |-> flight.flightNumber,
         origin |-> flight.origin,
         destination |-> flight.destination,
         departureTime |-> flight.departureTime,
         arrivalTime |-> flight.arrivalTime,
         price |-> flight.price,
         originAirport |-> originAirport,
         destinationAirport |-> destinationAirport,
         departureDateUTC |-> departureDateUTC,
         arrivalDateUTC |-> arrivalDateUTC,
         durationMinutes |-> calculateDuration(departureDateUTC, arrivalDateUTC)]

OriginKey(f) == f.origin
DestinationKey(f) == f.destination
DateKey(f) == f.departureTime.date

\* Variant: b.unshift(f), each flight goes to the front of its bucket.
RECURSIVE PushAll_Unshift(_, _, _)
PushAll_Unshift(map, flights, kind) ==
    IF flights = <<>> THEN map
    ELSE LET f == Head(flights)
             k == CASE kind = "origin" -> OriginKey(f)
                    [] kind = "destination" -> DestinationKey(f)
                    [] kind = "date" -> DateKey(f)
         IN  PushAll_Unshift(MapSet(map, k, <<f>> \o BucketOf(map, k)), Tail(flights), kind)

\* flights.forEach(f => { b = map.get(key(f)) || []; b.push(f); map.set(key(f), b) })
RECURSIVE PushAll(_, _, _)
PushAll(map, flights, kind) ==
    IF flights = <<>> THEN map
    ELSE LET f == Head(flights)
             k == CASE kind = "origin" -> OriginKey(f)
                    [] kind = "destination" -> DestinationKey(f)
                    [] kind = "date" -> DateKey(f)
         IN  PushAll(MapSet(map, k, Append(BucketOf(map, k), f)), Tail(flights), kind)

\* Variant: a flight whose airport is missing is left out instead of thrown on.
buildIndices_SkipMissing(data) ==
    LET amap == SetAirports(airportMap, data.airports)
        kept == SelectSeq(data.flights, LAMBDA f : ~MissingAirport(amap, f))
        enriched == [i \in 1..Len(kept) |-> enrichFlightWithMetadata(amap, kept[i])]
    IN  [threw |-> FALSE, airportMap |-> amap,
         flightsWithMetadata |-> enriched,
         flightsByOrigin |-> PushAll(flightsByOrigin, enriched, "origin"),
         flightsByDestination |-> PushAll(flightsByDestination, enriched, "destination"),
         flightsByDate |-> PushAll(flightsByDate, enriched, "date")]

\* buildIndices on the fields of the loader; threw tells whether it threw, and
\* the fields are those the throw leaves behind.
buildIndices(data) ==
    LET amap == SetAirports(airportMap, data.airports)
        bad == \E i \in 1..Len(data.flights) : MissingAirport(amap, data.flights[i])
        enriched == [i \in 1..Len(data.flights) |->
                        enrichFlightWithMetadata(amap, data.flights[i])]
    IN  IF bad
        THEN [threw |-> TRUE, airportMap |-> amap,
              flightsWithMetadata |-> flightsWithMetadata,
              flightsByOrigin |-> flightsByOrigin,
              flightsByDestination |-> flightsByDestination,
              flightsByDate |-> flightsByDate]
        ELSE [threw |-> FALSE, airportMap |-> amap,
              flightsWithMetadata |-> enriched,
              flightsByOrigin |-> PushAll(flightsByOrigin, enriched, "origin"),
              flightsByDestination |-> PushAll(flightsByDestination, enriched, "destination"),
              flightsByDate |-> PushAll(flightsByDate, enriched, "date")]

\* loadData(filePath) when the file holds `file`.
loadData(file) ==
    IF file = MALFORMED
    THEN [threw |-> TRUE, flightData |-> flightData, airportMap |-> airportMap,
          flightsWithMetadata |-> flightsWithMetadata,
          flightsByOrigin |-> flightsByOrigin,
          flightsByDestination |-> flightsByDestination,
          flightsByDate |-> flightsByDate]
    ELSE [flightData |-> file] @@ buildIndices(file)

getAirport(code) == IF code \in DOMAIN airportMap THEN airportMap[code] ELSE NULL

\* Variant: the date filter is missing.
getFlightsByOriginAndDate_AnyDate(origin, date) ==
    BucketOf(flightsByOrigin, origin)

getFlightsByOriginAndDate(origin, date) ==
    SelectSeq(BucketOf(flightsByOrigin, origin), LAMBDA f : f.departureTime.date = date)

getDirectFlights(origin, destination, date) ==
    SelectSeq(getFlightsByOriginAndDate(origin, date), LAMBDA f : f.destination = destination)

getFlightsDepartingFrom(airport) == BucketOf(flightsByOrigin, airport)

getFlightsArrivingAt(airport) == BucketOf(flightsByDestination, airport)

isDataLoaded == flightData # NULL

\* FlightController.healthCheck: the body sent (the timestamp is left out).
healthCheck == [status |-> "ok", dataLoaded |-> isDataLoaded]

getStats ==
    [totalAirports |-> Cardinality(DOMAIN airportMap),
     totalFlights |-> Len(flightsWithMetadata)]

(***************************************************************************)
(* connectionRules                                                         *)
(***************************************************************************)
MIN_DOMESTIC == 45
MIN_INTERNATIONAL == 90
MAX == 360

\* Variant: the airports' timezones are compared instead of their countries.
isDomesticConnection_SameZone(arrivingFlight, departingFlight) ==
    arrivingFlight.destinationAirport.timezone = departingFlight.originAirport.timezone

isDomesticConnection(arrivingFlight, departingFlight) ==
    arrivingFlight.destinationAirport.country = departingFlight.originAirport.country

\* Variant: only the maximum is enforced.
isValidLayoverDuration_NoMinimum(layoverMinutes, isDomestic) ==
    layoverMinutes <= MAX

\* Variant: the minimum itself is rejected.
isValidLayoverDuration_StrictMin(layoverMinutes, isDomestic) ==
    LET minRequired == IF isDomestic THEN MIN_DOMESTIC ELSE MIN_INTERNATIONAL
    IN  layoverMinutes > minRequired /\ layoverMinutes <= MAX

isValidLayoverDuration(layoverMinutes, isDomestic) ==
    LET minRequired == IF isDomestic THEN MIN_DOMESTIC ELSE MIN_INTERNATIONAL
    IN  layoverMinutes >= minRequired /\ layoverMinutes <= MAX

\* Variant: the time-order test is missing and the layover is only capped.
canConnect_MaxOnly(firstFlight, secondFlight, layoverMinutes) ==
    firstFlight.destination = secondFlight.origin /\ layoverMinutes <= MAX

\* Variant: a departure at the very instant of the arrival passes the time test.
canConnect_NonStrict(firstFlight, secondFlight, layoverMinutes) ==
    IF firstFlight.destination # secondFlight.origin THEN FALSE
    ELSE IF secondFlight.departureDateUTC < firstFlight.arrivalDateUTC THEN FALSE
    ELSE isValidLayoverDuration(layoverMinutes,
                                isDomesticConnection(firstFlight, secondFlight))

canConnect(firstFlight, secondFlight, layoverMinutes) ==
    IF firstFlight.destination # secondFlight.origin THEN FALSE
    ELSE IF secondFlight.departureDateUTC <= firstFlight.arrivalDateUTC THEN FALSE
    ELSE isValidLayoverDuration(layoverMinutes,
                                isDomesticConnection(firstFlight, secondFlight))

(***************************************************************************)
(* FlightSearchService                                                     *)
(***************************************************************************)
\* The concatenation of the lists of ss, in order: what nested for-of loops
\* that push onto one array leave in it.
RECURSIVE Flatten(_)
Flatten(ss) == IF ss = <<>> THEN <<>> ELSE Head(ss) \o Flatten(Tail(ss))

Candidate(segments, totalDuration, totalPrice) ==
    [segments |-> segments, totalDuration |-> totalDuration, totalPrice |-> totalPrice]

findDirectFlights(origin, destination, date) ==
    LET directFlights == getDirectFlights(origin, destination, date)
    IN  [i \in 1..Len(directFlights) |->
            Candidate(<<directFlights[i]>>, directFlights[i].durationMinutes,
                      directFlights[i].price)]

\* Variant: the second leg too is taken from the flights of the search date.
findOneStopConnections_SameDate(origin, destination, date) ==
    LET second(firstFlight, secondFlight) ==
            IF secondFlight.destination # destination THEN <<>>
            ELSE LET layoverMinutes == calculateLayoverDuration(
                         firstFlight.arrivalDateUTC, secondFlight.departureDateUTC)
                 IN  IF canConnect(firstFlight, secondFlight, layoverMinutes)
                     THEN << Candidate(<<firstFlight, secondFlight>>,
                                 firstFlight.durationMinutes + layoverMinutes
                                   + secondFlight.durationMinutes,
                                 firstFlight.price + secondFlight.price) >>
                     ELSE <<>>
        first(firstFlight) ==
            IF firstFlight.destination = destination THEN <<>>
            ELSE LET secondLegFlights ==
                         getFlightsByOriginAndDate(firstFlight.destination, date)
                 IN  Flatten([j \in 1..Len(secondLegFlights) |->
                                 second(firstFlight, secondLegFlights[j])])
        firstLegFlights == getFlightsByOriginAndDate(origin, date)
    IN  Flatten([i \in 1..Len(firstLegFlights) |-> first(firstLegFlights[i])])

findOneStopConnections(origin, destination, date) ==
    LET second(firstFlight, secondFlight) ==
            IF secondFlight.destination # destination THEN <<>>
            ELSE LET layoverMinutes == calculateLayoverDuration(
                         firstFlight.arrivalDateUTC, secondFlight.departureDateUTC)
                 IN  IF canConnect(firstFlight, secondFlight, layoverMinutes)
                     THEN << Candidate(<<firstFlight, secondFlight>>,
                                 firstFlight.durationMinutes + layoverMinutes
                                   + secondFlight.durationMinutes,
                                 firstFlight.price + secondFlight.price) >>
                     ELSE <<>>
        first(firstFlight) ==
            IF firstFlight.destination = destination THEN <<>>
            ELSE LET secondLegFlights == getFlightsDepartingFrom(firstFlight.destination)
                 IN  Flatten([j \in 1..Len(secondLegFlights) |->
                                 second(firstFlight, secondLegFlights[j])])
        firstLegFlights == getFlightsByOriginAndDate(origin, date)
    IN  Flatten([i \in 1..Len(firstLegFlights) |-> first(firstLegFlights[i])])

\* Variant: a first leg that already lands at the destination is not skipped.
findTwoStopConnections_ThroughDestination(origin, destination, date) ==
    LET third(firstFlight, secondFlight, firstLayover, thirdFlight) ==
            IF thirdFlight.destination # destination THEN <<>>
            ELSE LET secondLayover == calculateLayoverDuration(
                         secondFlight.arrivalDateUTC, thirdFlight.departureDateUTC)
                 IN  IF canConnect(secondFlight, thirdFlight, secondLayover)
                     THEN << Candidate(<<firstFlight, secondFlight, thirdFlight>>,
                                 firstFlight.durationMinutes + firstLayover
                                   + secondFlight.durationMinutes + secondLayover
                                   + thirdFlight.durationMinutes,
                                 firstFlight.price + secondFlight.price
                                   + thirdFlight.price) >>
                     ELSE <<>>
        second(firstFlight, secondFlight) ==
            IF secondFlight.destination = destination THEN <<>>
            ELSE IF secondFlight.destination = origin THEN <<>>
            ELSE LET firstLayover == calculateLayoverDuration(
                         firstFlight.arrivalDateUTC, secondFlight.departureDateUTC)
                 IN  IF ~canConnect(firstFlight, secondFlight, firstLayover) THEN <<>>
                     ELSE LET thirdLegFlights ==
                                  getFlightsDepartingFrom(secondFlight.destination)
                          IN  Flatten([k \in 1..Len(thirdLegFlights) |->
                                          third(firstFlight, secondFlight,
                                                firstLayover, thirdLegFlights[k])])
        first(firstFlight) ==
            LET secondLegFlights == getFlightsDepartingFrom(firstFlight.destination)
            IN  Flatten([j \in 1..Len(secondLegFlights) |->
                            second(firstFlight, secondLegFlights[j])])
        firstLegFlights == getFlightsByOriginAndDate(origin, date)
    IN  Flatten([i \in 1..Len(firstLegFlights) |-> first(firstLegFlights[i])])

\* Variant: a second leg that flies back to the origin is not skipped.
findTwoStopConnections_BackToOrigin(origin, destination, date) ==
    LET third(firstFlight, secondFlight, firstLayover, thirdFlight) ==
            IF thirdFlight.destination # destination THEN <<>>
            ELSE LET secondLayover == calculateLayoverDuration(
                         secondFlight.arrivalDateUTC, thirdFlight.departureDateUTC)
                 IN  IF canConnect(secondFlight, thirdFlight, secondLayover)
                     THEN << Candidate(<<firstFlight, secondFlight, thirdFlight>>,
                                 firstFlight.durationMinutes + firstLayover
                                   + secondFlight.durationMinutes + secondLayover
                                   + thirdFlight.durationMinutes,
                                 firstFlight.price + secondFlight.price
                                   + thirdFlight.price) >>
                     ELSE <<>>
        second(firstFlight, secondFlight) ==
            IF secondFlight.destination = destination THEN <<>>
            ELSE LET firstLayover == calculateLayoverDuration(
                         firstFlight.arrivalDateUTC, secondFlight.departureDateUTC)
                 IN  IF ~canConnect(firstFlight, secondFlight, firstLayover) THEN <<>>
                     ELSE LET thirdLegFlights ==
                                  getFlightsDepartingFrom(secondFlight.destination)
                          IN  Flatten([k \in 1..Len(thirdLegFlights) |->
                                          third(firstFlight, secondFlight,
                                                firstLayover, thirdLegFlights[k])])
        first(firstFlight) ==
            IF firstFlight.destination = destination THEN <<>>
            ELSE LET secondLegFlights == getFlightsDepartingFrom(firstFlight.destination)
                 IN  Flatten([j \in 1..Len(secondLegFlights) |->
                                 second(firstFlight, secondLegFlights[j])])
        firstLegFlights == getFlightsByOriginAndDate(origin, date)
    IN  Flatten([i \in 1..Len(firstLegFlights) |-> first(firstLegFlights[i])])

findTwoStopConnections(origin, destination, date) ==
    LET third(firstFlight, secondFlight, firstLayover, thirdFlight) ==
            IF thirdFlight.destination # destination THEN <<>>
            ELSE LET secondLayover == calculateLayoverDuration(
                         secondFlight.arrivalDateUTC, thirdFlight.departureDateUTC)
                 IN  IF canConnect(secondFlight, thirdFlight, secondLayover)
                     THEN << Candidate(<<firstFlight, secondFlight, thirdFlight>>,
                                 firstFlight.durationMinutes + firstLayover
                                   + secondFlight.durationMinutes + secondLayover
                                   + thirdFlight.durationMinutes,
                                 firstFlight.price + secondFlight.price
                                   + thirdFlight.price) >>
                     ELSE <<>>
        second(firstFlight, secondFlight) ==
            IF secondFlight.destination = destination THEN <<>>
            ELSE IF secondFlight.destination = origin THEN <<>>
            ELSE LET firstLayover == calculateLayoverDuration(
                         firstFlight.arrivalDateUTC, secondFlight.departureDateUTC)
                 IN  IF ~canConnect(firstFlight, secondFlight, firstLayover) THEN <<>>
                     ELSE LET thirdLegFlights ==
                                  getFlightsDepartingFrom(secondFlight.destination)
                          IN  Flatten([k \in 1..Len(thirdLegFlights) |->
                                          third(firstFlight, secondFlight,
                                                firstLayover, thirdLegFlights[k])])
        first(firstFlight) ==
            IF firstFlight.destination = destination THEN <<>>
            ELSE LET secondLegFlights == getFlightsDepartingFrom(firstFlight.destination)
                 IN  Flatten([j \in 1..Len(secondLegFlights) |->
                                 second(firstFlight, secondLegFlights[j])])
        firstLegFlights == getFlightsByOriginAndDate(origin, date)
    IN  Flatten([i \in 1..Len(firstLegFlights) |-> first(firstLegFlights[i])])

FlightSegment(flight) ==
    [flightNumber |-> flight.flightNumber,
     origin |-> flight.origin,
     originCountry |-> flight.originAirport.country,
     originCity |-> flight.originAirport.city,
     destination |-> flight.destination,
     destinationCountry |-> flight.destinationAirport.country,
     destinationCity |-> flight.destinationAirport.city,
     departureTime |-> utcToLocalTime(flight.departureDateUTC, flight.originAirport.timezone),
     arrivalTime |-> utcToLocalTime(flight.arrivalDateUTC, flight.destinationAirport.timezone),
     duration |-> flight.durationMinutes,
     price |-> flight.price]

Layover(currentFlight, nextFlight) ==
    [airport |-> currentFlight.destination,
     airportCity |-> currentFlight.destinationAirport.city,
     airportCountry |-> currentFlight.destinationAirport.country,
     duration |-> calculateLayoverDuration(currentFlight.arrivalDateUTC,
                                           nextFlight.departureDateUTC),
     isDomestic |-> isDomesticConnection(currentFlight, nextFlight)]

\* Variant: the total is the time in the air, without the layovers.
candidateToItinerary_FlightTimeOnly(candidate) ==
    [segments |-> [i \in 1..Len(candidate.segments) |-> FlightSegment(candidate.segments[i])],
     layovers |-> [i \in 1..(Len(candidate.segments) - 1) |->
                      Layover(candidate.segments[i], candidate.segments[i + 1])],
     totalDuration |-> LET d[i \in 0..Len(candidate.segments)] ==
                               IF i = 0 THEN 0
                               ELSE d[i - 1] + candidate.segments[i].durationMinutes
                       IN  d[Len(candidate.segments)],
     totalPrice |-> candidate.totalPrice,
     stops |-> Len(candidate.segments) - 1]

\* The id (a fresh uuid) is left out.
candidateToItinerary(candidate) ==
    [segments |-> [i \in 1..Len(candidate.segments) |-> FlightSegment(candidate.segments[i])],
     layovers |-> [i \in 1..(Len(candidate.segments) - 1) |->
                      Layover(candidate.segments[i], candidate.segments[i + 1])],
     totalDuration |-> candidate.totalDuration,
     totalPrice |-> candidate.totalPrice,
     stops |-> Len(candidate.segments) - 1]

convertToItineraries(candidates) ==
    [i \in 1..Len(candidates) |-> candidateToItinerary(candidates[i])]

\* Array.prototype.sort with (a, b) => a.totalDuration - b.totalDuration: stable.
RECURSIVE InsertByDuration(_, _)
InsertByDuration(sorted, it) ==
    IF sorted = <<>> THEN <<it>>
    ELSE IF Head(sorted).totalDuration <= it.totalDuration
         THEN <<Head(sorted)>> \o InsertByDuration(Tail(sorted), it)
         ELSE <<it>> \o sorted

\* Variant: the list is left in the order it was found.
sortByTotalDuration_Unsorted(itineraries) == itineraries

\* Variant: an unstable sort, which leaves equal totals in reverse order.
sortByTotalDuration_TiesReversed(itineraries) ==
    LET reversed == Reverse(itineraries)
        acc[i \in 0..Len(reversed)] ==
            IF i = 0 THEN <<>> ELSE InsertByDuration(acc[i - 1], reversed[i])
    IN  acc[Len(reversed)]

sortByTotalDuration(itineraries) ==
    LET acc[i \in 0..Len(itineraries)] ==
            IF i = 0 THEN <<>> ELSE InsertByDuration(acc[i - 1], itineraries[i])
    IN  acc[Len(itineraries)]

\* Variant: the airports are not looked up.
validateSearchParams_NoAirportCheck(params) ==
    IF params.origin = params.destination
    THEN "Origin and destination must be different"
    ELSE IF ~MatchesDateRegex(params.date) THEN "Invalid date format. Expected YYYY-MM-DD"
    ELSE "none"

\* The Error validateSearchParams throws, or "none".
\* Variant: origin = destination is tested before the airports are looked up.
validateSearchParams_SameAirportFirst(params) ==
    IF params.origin = params.destination
    THEN "Origin and destination must be different"
    ELSE IF getAirport(params.origin) = NULL THEN "Invalid origin airport code"
    ELSE IF getAirport(params.destination) = NULL THEN "Invalid destination airport code"
    ELSE IF ~MatchesDateRegex(params.date) THEN "Invalid date format. Expected YYYY-MM-DD"
    ELSE "none"

validateSearchParams(params) ==
    IF getAirport(params.origin) = NULL THEN "Invalid origin airport code"
    ELSE IF getAirport(params.destination) = NULL THEN "Invalid destination airport code"
    ELSE IF params.origin = params.destination
         THEN "Origin and destination must be different"
    ELSE IF ~MatchesDateRegex(params.date) THEN "Invalid date format. Expected YYYY-MM-DD"
    ELSE "none"

\* Variant: an empty result is thrown as an error.
search_ThrowsOnEmpty(params) ==
    LET thrown == validateSearchParams(params)
        itineraries == sortByTotalDuration(
            convertToItineraries(findDirectFlights(params.origin, params.destination, params.date))
            \o convertToItineraries(findOneStopConnections(params.origin, params.destination, params.date))
            \o convertToItineraries(findTwoStopConnections(params.origin, params.destination, params.date)))
    IN  IF thrown # "none"
        THEN [status |-> "thrown", message |-> thrown, searchParams |-> params]
        ELSE IF itineraries = <<>>
        THEN [status |-> "thrown", message |-> "No flights found", searchParams |-> params]
        ELSE [status |-> "returned", itineraries |-> itineraries,
              searchParams |-> params, totalResults |-> Len(itineraries)]

\* search(params): the SearchResponse returned, or the Error thrown.
search(params) ==
    LET thrown == validateSearchParams(params)
        itineraries == sortByTotalDuration(
            convertToItineraries(findDirectFlights(params.origin, params.destination, params.date))
            \o convertToItineraries(findOneStopConnections(params.origin, params.destination, params.date))
            \o convertToItineraries(findTwoStopConnections(params.origin, params.destination, params.date)))
    IN  IF thrown # "none"
        THEN [status |-> "thrown", message |-> thrown, searchParams |-> params]
        ELSE [status |-> "returned", itineraries |-> itineraries,
              searchParams |-> params, totalResults |-> Len(itineraries)]

(***************************************************************************)
(* The process: startServer loads the data and listens; requests are       *)
(* answered one search at a time.                                          *)
(***************************************************************************)
NoResponse == [status |-> "none"]

\* Nothing is being sent.
NoHttpResponse == [sent |-> FALSE]

\* The text of the Error thrown by validateSearchParams, word by word; the
\* airport messages end with the code searched for.
ErrorMessage(err) ==
    CASE err.message = "Invalid origin airport code"
            -> <<"Invalid", "origin", "airport", "code:", err.searchParams.origin>>
      [] err.message = "Invalid destination airport code"
            -> <<"Invalid", "destination", "airport", "code:", err.searchParams.destination>>
      [] err.message = "Origin and destination must be different"
            -> <<"Origin", "and", "destination", "must", "be", "different">>
      [] err.message = "Invalid date format. Expected YYYY-MM-DD"
            -> <<"Invalid", "date", "format.", "Expected", "YYYY-MM-DD">>
      [] OTHER -> <<err.message>>

\* message.includes(words)
includes(message, words) ==
    \E i \in 1..(Len(message) - Len(words) + 1) :
        SubSeq(message, i, i + Len(words) - 1) = words

\* errorHandler on a plain Error (search throws no AppError).
errorHandler(err) ==
    LET message == ErrorMessage(err)
    IN  IF includes(message, <<"Invalid">>) \/ includes(message, <<"must", "be">>)
        THEN [sent |-> TRUE, statusCode |-> 400, code |-> "VALIDATION_ERROR", message |-> message]
        ELSE IF includes(message, <<"not", "found">>) \/ includes(message, <<"does", "not", "exist">>)
        THEN [sent |-> TRUE, statusCode |-> 404, code |-> "NOT_FOUND", message |-> message]
        ELSE [sent |-> TRUE, statusCode |-> 500, code |-> "INTERNAL_ERROR", message |-> message]

\* FlightController.searchFlights on the outcome of search: res.json(results),
\* whose body is the SearchResponse held in `response`, or next(error).
searchFlights(outcome) ==
    IF outcome.status = "thrown" THEN errorHandler(outcome)
    ELSE [sent |-> TRUE, statusCode |-> 200]

\* No rule is being called.
NoCall == [fn |-> "none"]

SearchOrigins == AirportCodes \cup {UnknownCode}
SearchDates == {D_2024_03_15, D_2024_03_16, D_2024_02_30, D_2024_13_45, D_2024_3_15}

Init ==
    /\ pc = "init"
    /\ loads = 0
    /\ flightData = NULL
    /\ airportMap = EmptyMap
    /\ flightsWithMetadata = <<>>
    /\ flightsByOrigin = EmptyMap
    /\ flightsByDestination = EmptyMap
    /\ flightsByDate = EmptyMap
    /\ response = NoResponse
    /\ call = NoCall
    /\ httpResponse = NoHttpResponse

\* The assignments of one loadData(file) call.
CallLoadData(file) ==
    LET r == loadData(file)
    IN  /\ flightData' = r.flightData
        /\ airportMap' = r.airportMap
        /\ flightsWithMetadata' = r.flightsWithMetadata
        /\ flightsByOrigin' = r.flightsByOrigin
        /\ flightsByDestination' = r.flightsByDestination
        /\ flightsByDate' = r.flightsByDate
        /\ loads' = loads + 1

\* Variant: the catch of startServer is missing, the server goes on to listen.
LoadData_ListensAnyway ==
    /\ pc = "init"
    /\ \E file \in DatasetFiles :
          /\ CallLoadData(file)
          /\ pc' = "loaded"
    /\ UNCHANGED <<response, httpResponse, call>>

\* startServer: dataLoader.loadData(FLIGHTS_DATA_PATH); a throw ends the process.
LoadData ==
    /\ pc = "init"
    /\ \E file \in DatasetFiles :
          /\ CallLoadData(file)
          /\ pc' = IF loadData(file).threw THEN "exited" ELSE "loaded"
    /\ UNCHANGED <<response, httpResponse, call>>

\* startServer: app.listen(PORT)
Listen ==
    /\ pc = "loaded"
    /\ pc' = "listening"
    /\ UNCHANGED <<loads, flightData, store, response, httpResponse, call>>

\* Variant: the search reverses, in place, the bucket of the origin it reads.
Search_ReversesBucket ==
    /\ pc = "listening"
    /\ \E origin \in SearchOrigins, destination \in SearchOrigins, date \in SearchDates :
          /\ response' = search([origin |-> origin, destination |-> destination, date |-> date])
          /\ flightsByOrigin' =
                IF origin \in DOMAIN flightsByOrigin
                THEN MapSet(flightsByOrigin, origin, Reverse(flightsByOrigin[origin]))
                ELSE flightsByOrigin
    /\ httpResponse' = searchFlights(response')
    /\ pc' = "responding"
    /\ UNCHANGED <<loads, flightData, airportMap, flightsWithMetadata,
                   flightsByDestination, flightsByDate, call>>

\* FlightController.searchFlights: searchService.search(validatedQuery)
Search ==
    /\ pc = "listening"
    /\ \E origin \in SearchOrigins, destination \in SearchOrigins, date \in SearchDates :
          response' = search([origin |-> origin, destination |-> destination, date |-> date])
    /\ httpResponse' = searchFlights(response')
    /\ pc' = "responding"
    /\ UNCHANGED <<loads, flightData, store, call>>

\* The response is sent; the server waits for the next request.
Respond ==
    /\ pc = "responding"
    /\ pc' = "listening"
    /\ response' = NoResponse
    /\ httpResponse' = NoHttpResponse
    /\ UNCHANGED <<loads, flightData, store, call>>

\* A second loadData call on the singleton, with the same file.
ReloadData ==
    /\ pc = "listening"
    /\ loads < MaxLoads
    /\ CallLoadData(flightData)
    /\ UNCHANGED <<pc, response, httpResponse, call>>

Next == LoadData \/ Listen \/ Search \/ Respond

Spec == Init /\ [][Next]_vars

NextReload == LoadData \/ Listen \/ Search \/ Respond \/ ReloadData

SpecReload == Init /\ [][NextReload]_vars

(***************************************************************************)
(* Properties                                                              *)
(***************************************************************************)
Returned == response.status = "returned"

Itineraries == IF Returned THEN response.itineraries ELSE <<>>

FlightNumbers(it) == [i \in 1..Len(it.segments) |-> it.segments[i].flightNumber]

\* The instant a formatted local time with offset denotes.
InstantOf(formatted) == formatted.wall - formatted.offset

RECURSIVE SumOf(_, _)
SumOf(s, field) ==
    IF s = <<>> THEN 0 ELSE Head(s)[field] + SumOf(Tail(s), field)

Connects(a, b) ==
    canConnect(a, b, calculateLayoverDuration(a.arrivalDateUTC, b.departureDateUTC))

\* The valid paths of a search, as tuples of positions in the loaded flight list.
ValidPaths(origin, destination, date) ==
    LET F == flightsWithMetadata
        N == 1..Len(F)
        first(i) == F[i].origin = origin /\ F[i].departureTime.date = date
    IN  {<<i>> : i \in {i \in N : first(i) /\ F[i].destination = destination}}
        \cup {p \in N \X N :
                /\ first(p[1])
                /\ F[p[1]].destination # destination
                /\ F[p[2]].destination = destination
                /\ Connects(F[p[1]], F[p[2]])}
        \cup {p \in N \X N \X N :
                /\ first(p[1])
                /\ F[p[1]].destination # destination
                /\ F[p[2]].destination # destination
                /\ F[p[2]].destination # origin
                /\ F[p[3]].destination = destination
                /\ Connects(F[p[1]], F[p[2]])
                /\ Connects(F[p[2]], F[p[3]])}

PathNumbers(p) == [i \in 1..Len(p) |-> flightsWithMetadata[p[i]].flightNumber]

\* C1: after the load, a search that returns lists every valid path of at most
\* three legs exactly once, and lists nothing else.
C1_ExactlyTheValidPaths ==
    Returned =>
        LET P == ValidPaths(response.searchParams.origin,
                            response.searchParams.destination,
                            response.searchParams.date)
            its == response.itineraries
        IN  /\ \A p \in P :
                 Cardinality({k \in 1..Len(its) : FlightNumbers(its[k]) = PathNumbers(p)}) = 1
            /\ \A k \in 1..Len(its) : \E p \in P : FlightNumbers(its[k]) = PathNumbers(p)

\* A search that returned a direct, a one-stop and a two-stop itinerary.
C1_Witness ==
    /\ Returned
    /\ \A n \in 0..2 : \E k \in 1..Len(Itineraries) : Itineraries[k].stops = n

\* C2: adjacent segments of a returned itinerary meet at one airport, and the
\* later one departs strictly after the earlier one arrives.
C2_SegmentsChain ==
    \A k \in 1..Len(Itineraries) :
        LET segs == Itineraries[k].segments
        IN  \A i \in 1..(Len(segs) - 1) :
               /\ segs[i].destination = segs[i + 1].origin
               /\ InstantOf(segs[i + 1].departureTime) > InstantOf(segs[i].arrivalTime)

\* A returned two-stop itinerary.
C2_Witness ==
    \E k \in 1..Len(Itineraries) : Len(Itineraries[k].segments) = 3

\* C3: every layover of a returned itinerary lasts 45..360 minutes when it is
\* flagged domestic and 90..360 minutes when it is flagged international.
C3_LayoverWithinLimits ==
    \A k \in 1..Len(Itineraries) :
        \A i \in 1..Len(Itineraries[k].layovers) :
            LET l == Itineraries[k].layovers[i]
            IN  /\ l.duration <= 360
                /\ l.duration >= (IF l.isDomestic THEN 45 ELSE 90)

\* JFK to LAX over a dataset that holds SP201 and SP203 (30 minutes apart at
\* ORD): an itinerary with a layover is returned, and none pairs those two.
C3_Witness ==
    /\ Returned
    /\ response.searchParams.origin = "JFK"
    /\ response.searchParams.destination = "LAX"
    /\ {"SP201", "SP203"} \subseteq
          {flightsWithMetadata[i].flightNumber : i \in 1..Len(flightsWithMetadata)}
    /\ \E k \in 1..Len(Itineraries) :
          /\ Len(Itineraries[k].layovers) = 1
          /\ Itineraries[k].layovers[1].duration = 45
          /\ Itineraries[k].layovers[1].isDomestic

\* C4: totalDuration is the sum of the segments' durations plus the sum of the
\* layovers' durations.
C4_TotalDurationIsSum ==
    \A k \in 1..Len(Itineraries) :
        Itineraries[k].totalDuration =
            SumOf(Itineraries[k].segments, "duration")
              + SumOf(Itineraries[k].layovers, "duration")

\* A returned itinerary with two layovers.
C4_Witness ==
    \E k \in 1..Len(Itineraries) : Len(Itineraries[k].layovers) = 2

\* C5: the returned list is in non-decreasing order of totalDuration.
C5_SortedByTotalDuration ==
    \A i, j \in 1..Len(Itineraries) :
        i < j => Itineraries[i].totalDuration <= Itineraries[j].totalDuration

\* A returned list whose itineraries were not found in order of duration.
C5_Witness ==
    /\ Returned
    /\ LET q == response.searchParams
           found == findDirectFlights(q.origin, q.destination, q.date)
                    \o findOneStopConnections(q.origin, q.destination, q.date)
                    \o findTwoStopConnections(q.origin, q.destination, q.date)
       IN  \E i \in 1..Len(found) : \E j \in 1..Len(found) :
              i < j /\ found[i].totalDuration > found[j].totalDuration

\* C6: no returned two-stop itinerary has the search origin as one of its two
\* intermediate stops.
C6_OriginNotIntermediate ==
    \A k \in 1..Len(Itineraries) :
        Itineraries[k].stops = 2 =>
            /\ Itineraries[k].segments[1].destination # response.searchParams.origin
            /\ Itineraries[k].segments[2].destination # response.searchParams.origin

Occurrences(s, x) == Cardinality({i \in 1..Len(s) : s[i] = x})

\* C7: after a second loadData of the same file every flight is once in its
\* origin bucket and once in its destination bucket.
C7_SecondLoadKeepsBuckets ==
    loads >= 2 =>
        \A i \in 1..Len(flightsWithMetadata) :
            LET f == flightsWithMetadata[i]
            IN  /\ Occurrences(BucketOf(flightsByOrigin, f.origin), f) = 1
                /\ Occurrences(BucketOf(flightsByDestination, f.destination), f) = 1

\* C8: a search between two distinct known airports whose date is not a
\* calendar date of the form YYYY-MM-DD is rejected for its date.
C8_InvalidDateRejected ==
    (/\ response.status # "none"
     /\ response.searchParams.origin \in DOMAIN airportMap
     /\ response.searchParams.destination \in DOMAIN airportMap
     /\ response.searchParams.origin # response.searchParams.destination
     /\ ~IsCalendarDate(response.searchParams.date))
        => /\ response.status = "thrown"
           /\ response.message = "Invalid date format. Expected YYYY-MM-DD"

\* C9: a search whose origin or destination is not in the airport table
\* throws the invalid-airport error and yields no itinerary list.
C9_UnknownAirportRejected ==
    (/\ response.status # "none"
     /\ \/ response.searchParams.origin \notin DOMAIN airportMap
        \/ response.searchParams.destination \notin DOMAIN airportMap)
        => /\ response.status = "thrown"
           /\ response.message \in {"Invalid origin airport code",
                                    "Invalid destination airport code"}
           /\ "itineraries" \notin DOMAIN response

\* A search from an unknown origin over a store that holds flights was answered.
C9_Witness ==
    /\ response.status = "thrown"
    /\ response.searchParams.origin = UnknownCode
    /\ response.searchParams.destination \in DOMAIN airportMap
    /\ MatchesDateRegex(response.searchParams.date)
    /\ Len(flightsWithMetadata) > 0

\* C10: every flight the store holds after a successful load has a duration of
\* at least zero minutes.
C10_NoNegativeDuration ==
    pc \in {"loaded", "listening", "responding"} =>
        \A i \in 1..Len(flightsWithMetadata) :
            flightsWithMetadata[i].durationMinutes >= 0

TableCodes(data) == {data.airports[i].code : i \in 1..Len(data.airports)}

\* C11: a file with a flight whose origin or destination is not in its airport
\* table makes the load fail, and a load that succeeds has enriched every
\* flight of the file, in order, and put it in its three index buckets.
C11_UnknownAirportFailsLoad ==
    /\ (/\ flightData # NULL
        /\ \E i \in 1..Len(flightData.flights) :
              \/ flightData.flights[i].origin \notin TableCodes(flightData)
              \/ flightData.flights[i].destination \notin TableCodes(flightData))
          => pc = "exited"
    /\ pc \in {"loaded", "listening", "responding"} =>
          /\ Len(flightsWithMetadata) = Len(flightData.flights)
          /\ \A i \in 1..Len(flightsWithMetadata) :
                LET f == flightsWithMetadata[i]
                IN  /\ f.flightNumber = flightData.flights[i].flightNumber
                    /\ Occurrences(BucketOf(flightsByOrigin, f.origin), f) >= 1
                    /\ Occurrences(BucketOf(flightsByDestination, f.destination), f) >= 1
                    /\ Occurrences(BucketOf(flightsByDate, f.departureTime.date), f) >= 1

\* A load that failed on a file listing a flight to an unknown airport among
\* flights between known airports.
C11_Witness ==
    /\ pc = "exited"
    /\ flightData # NULL
    /\ Len(flightData.flights) >= 2

\* C12: a search with valid inputs returns; what it returns has totalResults
\* equal to the length of the list; and with no valid path the list is empty.
C12_NoResultIsSuccess ==
    /\ (/\ response.status # "none"
        /\ response.searchParams.origin \in DOMAIN airportMap
        /\ response.searchParams.destination \in DOMAIN airportMap
        /\ response.searchParams.origin # response.searchParams.destination
        /\ IsCalendarDate(response.searchParams.date))
          => Returned
    /\ Returned =>
          /\ response.totalResults = Len(response.itineraries)
          /\ ValidPaths(response.searchParams.origin,
                        response.searchParams.destination,
                        response.searchParams.date) = {}
                => response.itineraries = <<>> /\ response.totalResults = 0

\* A search over a store that holds flights found no path and returned.
C12_Witness ==
    /\ Returned
    /\ IsCalendarDate(response.searchParams.date)
    /\ Len(flightsWithMetadata) > 0
    /\ response.itineraries = <<>>
    /\ response.totalResults = 0

(***************************************************************************)
(* The example datasets of the README: the server is started on a file     *)
(* listing some of the example flights and answers searches between the    *)
(* example airports.                                                       *)
(***************************************************************************)
ScenarioAirports ==
    << Airport("JFK", "New York", "US", "America/New_York"),
       Airport("LAX", "Los Angeles", "US", "America/Los_Angeles"),
       Airport("BOS", "Boston", "US", "America/New_York"),
       Airport("ORD", "Chicago", "US", "America/Chicago"),
       Airport("SEA", "Seattle", "US", "America/Los_Angeles") >>

ScenarioCodes == {ScenarioAirports[i].code : i \in 1..Len(ScenarioAirports)}

ScenarioA_SP101 ==
    Flight("SP101", "JFK", "LAX", LocalTime(D_2024_03_15, 8, 30, 0),
           LocalTime(D_2024_03_15, 11, 45, 0), 299)

ScenarioB_SP301 ==
    Flight("SP301", "BOS", "ORD", LocalTime(D_2024_03_15, 8, 0, 0),
           LocalTime(D_2024_03_15, 10, 15, 0), 179)

ScenarioB_SP302 ==
    Flight("SP302", "ORD", "SEA", LocalTime(D_2024_03_15, 11, 0, 0),
           LocalTime(D_2024_03_15, 13, 30, 0), 259)

ScenarioFlights == <<ScenarioA_SP101, ScenarioB_SP301, ScenarioB_SP302>>

\* Files listing any of the example flights, in the order above.
ScenarioFiles ==
    {[airports |-> ScenarioAirports,
      flights |-> [i \in 1..Cardinality(S) |-> ScenarioFlights[Ascending(S)[i]]]]
        : S \in SUBSET (1..Len(ScenarioFlights))}

\* startServer on one of the example files.
LoadScenario ==
    /\ pc = "init"
    /\ \E file \in ScenarioFiles :
          /\ CallLoadData(file)
          /\ pc' = IF loadData(file).threw THEN "exited" ELSE "loaded"
    /\ UNCHANGED <<response, httpResponse, call>>

\* FlightController.searchFlights between the example airports.
SearchScenario ==
    /\ pc = "listening"
    /\ \E origin \in ScenarioCodes, destination \in ScenarioCodes,
          date \in {D_2024_03_15, D_2024_03_16} :
          response' = search([origin |-> origin, destination |-> destination, date |-> date])
    /\ httpResponse' = searchFlights(response')
    /\ pc' = "responding"
    /\ UNCHANGED <<loads, flightData, store, call>>

NextScenarios == LoadScenario \/ Listen \/ SearchScenario \/ Respond

SpecScenarios == Init /\ [][NextScenarios]_vars

\* The response to search(origin, destination, date) over the file listing `flights`.
ScenarioAnswered(flights, origin, destination, date) ==
    /\ Returned
    /\ flightData # NULL
    /\ flightData.flights = flights
    /\ response.searchParams = [origin |-> origin, destination |-> destination, date |-> date]

mockFlight(origin, dest, depTime, arrTime) ==
    [flightNumber |-> "TEST123",
     origin |-> origin.code,
     destination |-> dest.code,
     price |-> 100,
     originAirport |-> origin,
     destinationAirport |-> dest,
     departureDateUTC |-> depTime,
     arrivalDateUTC |-> arrTime,
     durationMinutes |-> 60]

TestAirports == {AirportTable[i] : i \in 1..Len(AirportTable)}

usAirport == CHOOSE a \in TestAirports : a.code = "JFK"

\* 2024-03-15T10:00:00Z, T10:30:00Z and T11:00:00Z
TestInstants ==
    {parseISO(LocalTime(D_2024_03_15, 10, 0, 0)),
     parseISO(LocalTime(D_2024_03_15, 10, 30, 0)),
     parseISO(LocalTime(D_2024_03_15, 11, 0, 0))}

\* Flights that land at any airport at any of the instants.
ArrivingFlights ==
    {mockFlight(usAirport, dest, parseISO(LocalTime(D_2024_03_15, 8, 0, 0)), arrTime) :
        dest \in TestAirports, arrTime \in TestInstants}

\* Flights that leave any airport at any of the instants.
DepartingFlights ==
    {mockFlight(origin, usAirport, depTime, parseISO(LocalTime(D_2024_03_15, 14, 0, 0))) :
        origin \in TestAirports, depTime \in TestInstants}

LayoverValues == {-60, 0, 30, 44, 45, 60, 89, 90, 120, 180, 360, 361, 500}

CallCanConnect ==
    /\ call = NoCall
    /\ \E firstFlight \in ArrivingFlights, secondFlight \in DepartingFlights,
          layoverMinutes \in LayoverValues :
          call' = [fn |-> "canConnect", firstFlight |-> firstFlight,
                   secondFlight |-> secondFlight, layoverMinutes |-> layoverMinutes,
                   result |-> canConnect(firstFlight, secondFlight, layoverMinutes)]
    /\ UNCHANGED <<pc, loads, flightData, store, response, httpResponse>>

CallIsValidLayoverDuration ==
    /\ call = NoCall
    /\ \E layoverMinutes \in LayoverValues, isDomestic \in BOOLEAN :
          call' = [fn |-> "isValidLayoverDuration", layoverMinutes |-> layoverMinutes,
                   isDomestic |-> isDomestic,
                   result |-> isValidLayoverDuration(layoverMinutes, isDomestic)]
    /\ UNCHANGED <<pc, loads, flightData, store, response, httpResponse>>

CallIsDomesticConnection ==
    /\ call = NoCall
    /\ \E arrivingFlight \in ArrivingFlights, departingFlight \in DepartingFlights :
          call' = [fn |-> "isDomesticConnection", arrivingFlight |-> arrivingFlight,
                   departingFlight |-> departingFlight,
                   result |-> isDomesticConnection(arrivingFlight, departingFlight)]
    /\ UNCHANGED <<pc, loads, flightData, store, response, httpResponse>>

\* The caller has its answer.
Return ==
    /\ call # NoCall
    /\ call' = NoCall
    /\ UNCHANGED <<pc, loads, flightData, store, response, httpResponse>>

NextRules == CallCanConnect \/ CallIsValidLayoverDuration \/ CallIsDomesticConnection \/ Return

SpecRules == Init /\ [][NextRules]_vars

\* C15: canConnect is false when the first leg's destination differs from the
\* second leg's origin, false when the second leg does not depart strictly
\* after the first lands, whatever the layover supplied, and otherwise equals
\* isValidLayoverDuration of the layover and of isDomesticConnection of the legs.
C15_CanConnect ==
    call.fn = "canConnect" =>
        LET legA == call.firstFlight
            legB == call.secondFlight
        IN  /\ legA.destination # legB.origin => call.result = FALSE
            /\ legB.departureDateUTC <= legA.arrivalDateUTC => call.result = FALSE
            /\ (legA.destination = legB.origin /\ legB.departureDateUTC > legA.arrivalDateUTC)
                  => call.result = isValidLayoverDuration(call.layoverMinutes,
                                                          isDomesticConnection(legA, legB))

\* canConnect was refused for a departure at the instant of the arrival, at the
\* same airport, with a layover value that is itself acceptable.
C15_Witness ==
    /\ call.fn = "canConnect"
    /\ call.firstFlight.destination = call.secondFlight.origin
    /\ call.secondFlight.departureDateUTC = call.firstFlight.arrivalDateUTC
    /\ call.layoverMinutes = 60
    /\ call.result = FALSE

\* C16: isValidLayoverDuration is true exactly from 45 (domestic) or 90
\* (international) up to 360 minutes, the three boundaries included: 45, 90 and
\* 360 are accepted, 44 (domestic), 89 (international) and 361 are rejected.
C16_LayoverBoundaries ==
    call.fn = "isValidLayoverDuration" =>
        LET m == call.layoverMinutes
            d == call.isDomestic
        IN  /\ call.result = (/\ (IF d THEN m >= 45 ELSE m >= 90)
                              /\ m <= 360)
            /\ (m = 45 /\ d) => call.result
            /\ (m = 90 /\ ~d) => call.result
            /\ m = 360 => call.result
            /\ (m = 44 /\ d) => ~call.result
            /\ (m = 89 /\ ~d) => ~call.result
            /\ m = 361 => ~call.result

\* An international layover of exactly 90 minutes was accepted.
C16_Witness ==
    /\ call.fn = "isValidLayoverDuration"
    /\ call.layoverMinutes = 90
    /\ ~call.isDomestic
    /\ call.result

\* The country the airport table gives for a code.
CountryOf(code) == (CHOOSE a \in TestAirports : a.code = code).country

TimezoneOf(code) == (CHOOSE a \in TestAirports : a.code = code).timezone

DayOfSeconds(t) == t \div 86400

\* C18: the first segment of every returned itinerary departs on the search
\* date in the origin's local time, and every valid path one of whose later
\* legs departs on another local date than the search date is returned.
C18_OnlyFirstLegOnSearchDate ==
    Returned =>
        LET date == response.searchParams.date
            its == response.itineraries
            F == flightsWithMetadata
        IN  /\ \A k \in 1..Len(its) :
                  DayOfSeconds(its[k].segments[1].departureTime.wall)
                    = DayOfSeconds(parseISO(LocalTime(date, 0, 0, 0)))
            /\ \A p \in ValidPaths(response.searchParams.origin,
                                   response.searchParams.destination, date) :
                  (\E i \in 2..Len(p) : F[p[i]].departureTime.date # date)
                      => \E k \in 1..Len(its) : FlightNumbers(its[k]) = PathNumbers(p)

\* A returned itinerary whose last leg departs the day after the search date.
C18_Witness ==
    /\ Returned
    /\ \E k \in 1..Len(Itineraries) :
          LET segs == Itineraries[k].segments
          IN  /\ Len(segs) >= 2
              /\ DayOfSeconds(segs[Len(segs)].departureTime.wall)
                   > DayOfSeconds(segs[1].departureTime.wall)

\* A step taken while the server is serving keeps the store and the document.
StoreKeptWhileServing ==
    pc \in {"listening", "responding"} =>
        /\ airportMap' = airportMap
        /\ flightsWithMetadata' = flightsWithMetadata
        /\ flightsByOrigin' = flightsByOrigin
        /\ flightsByDestination' = flightsByDestination
        /\ flightsByDate' = flightsByDate
        /\ flightData' = flightData

\* C19: once the server listens, no step (a search that returns, a search that
\* throws, the sending of the response) changes the airport table, the
\* enriched flight list, any index bucket or the loaded document.
C19_SearchLeavesStoreUnchanged == [][StoreKeptWhileServing]_vars

\* A search that threw has been answered over a store with several flights
\* from one origin, still held in the order of the file.
C19_Witness ==
    /\ pc = "responding"
    /\ response.status = "thrown"
    /\ \E o \in DOMAIN flightsByOrigin : Len(flightsByOrigin[o]) >= 2
    /\ \A i \in 1..Len(flightsWithMetadata) :
          flightsWithMetadata[i].flightNumber = flightData.flights[i].flightNumber

(***************************************************************************)
(* Datasets with ties: every path from JFK to LAX below leaves at 12:00Z   *)
(* or 13:00Z and takes 450 minutes in all.                                 *)
(***************************************************************************)
TieFlights ==
    << \* direct, 12:00Z -> 19:30Z
       Flight("TD1", "JFK", "LAX", LocalTime(D_2024_03_15, 8, 0, 0),
              LocalTime(D_2024_03_15, 12, 30, 0), 300),
       \* direct, 13:00Z -> 20:30Z
       Flight("TD2", "JFK", "LAX", LocalTime(D_2024_03_15, 9, 0, 0),
              LocalTime(D_2024_03_15, 13, 30, 0), 310),
       \* JFK -> ORD, 12:00Z -> 14:15Z
       Flight("TA1", "JFK", "ORD", LocalTime(D_2024_03_15, 8, 0, 0),
              LocalTime(D_2024_03_15, 9, 15, 0), 120),
       \* ORD -> LAX, 15:00Z -> 19:30Z, 45 minutes after TA1 lands
       Flight("TB1", "ORD", "LAX", LocalTime(D_2024_03_15, 10, 0, 0),
              LocalTime(D_2024_03_15, 12, 30, 0), 180),
       \* ORD -> LAX, 15:15Z -> 19:30Z, 60 minutes after TA1 lands
       Flight("TB2", "ORD", "LAX", LocalTime(D_2024_03_15, 10, 15, 0),
              LocalTime(D_2024_03_15, 12, 30, 0), 170),
       \* ORD -> LHR, 15:00Z -> 16:00Z, 45 minutes after TA1 lands
       Flight("TC1", "ORD", "LHR", LocalTime(D_2024_03_15, 10, 0, 0),
              LocalTime(D_2024_03_15, 16, 0, 0), 90),
       \* LHR -> LAX, 17:00Z -> 19:30Z, 60 minutes after TC1 lands
       Flight("TC2", "LHR", "LAX", LocalTime(D_2024_03_15, 17, 0, 0),
              LocalTime(D_2024_03_15, 12, 30, 0), 95) >>

\* Files listing any of the flights above, in that order or reversed.
TieFiles ==
    LET asc(S) == [i \in 1..Cardinality(S) |-> TieFlights[Ascending(S)[i]]]
        lists == {asc(S) : S \in SUBSET (1..Len(TieFlights))}
    IN  {[airports |-> AirportTable, flights |-> l] : l \in lists}
        \cup {[airports |-> AirportTable, flights |-> Reverse(l)] : l \in lists}

\* startServer on one of the files with ties.
LoadTies ==
    /\ pc = "init"
    /\ \E file \in TieFiles :
          /\ CallLoadData(file)
          /\ pc' = IF loadData(file).threw THEN "exited" ELSE "loaded"
    /\ UNCHANGED <<response, httpResponse, call>>

\* FlightController.searchFlights on 2024-03-15 between the airports of the table.
SearchTies ==
    /\ pc = "listening"
    /\ \E origin \in AirportCodes, destination \in AirportCodes :
          response' = search([origin |-> origin, destination |-> destination,
                              date |-> D_2024_03_15])
    /\ httpResponse' = searchFlights(response')
    /\ pc' = "responding"
    /\ UNCHANGED <<loads, flightData, store, call>>

NextTies == LoadTies \/ Listen \/ SearchTies \/ Respond

SpecTies == Init /\ [][NextTies]_vars

\* Position of a flight number in the loaded flight list.
PositionOf(flightNumber) ==
    CHOOSE i \in 1..Len(flightsWithMetadata) :
        flightsWithMetadata[i].flightNumber = flightNumber

\* The segments of it1 come before those of it2 in dataset order, leg by leg.
EncounteredBefore(it1, it2) ==
    \E k \in 1..Len(it1.segments) :
        /\ \A m \in 1..(k - 1) : it1.segments[m].flightNumber = it2.segments[m].flightNumber
        /\ PositionOf(it1.segments[k].flightNumber) < PositionOf(it2.segments[k].flightNumber)

\* C21: of two returned itineraries with the same totalDuration, the one with
\* fewer stops comes first, and of two with the same number of stops the one
\* the nested loops over the index buckets (dataset order) reach first.
C21_TiesInEncounterOrder ==
    Returned =>
        \A i, j \in 1..Len(response.itineraries) :
            LET a == response.itineraries[i]
                b == response.itineraries[j]
            IN  (i < j /\ a.totalDuration = b.totalDuration) =>
                    \/ a.stops < b.stops
                    \/ a.stops = b.stops /\ EncounteredBefore(a, b)

\* A response listing a direct, two one-stop and a two-stop itinerary that all
\* take the same time, from a file in reversed order.
C21_Witness ==
    /\ Returned
    /\ Len(flightsWithMetadata) = Len(TieFlights)
    /\ flightsWithMetadata[1].flightNumber = "TC2"
    /\ \E i, j, k, l \in 1..Len(Itineraries) :
          /\ i < j /\ j < k /\ k < l
          /\ Itineraries[i].stops = 0
          /\ Itineraries[j].stops = 1
          /\ Itineraries[k].stops = 1
          /\ Itineraries[l].stops = 2
          /\ \A x \in {j, k, l} : Itineraries[x].totalDuration = Itineraries[i].totalDuration

(***************************************************************************)
(* The date utilities called on their own: a local timestamp is converted  *)
(* to an instant and the instant is formatted back in the same zone.       *)
(***************************************************************************)
D_2024_03_09 == <<"2", "0", "2", "4", "-", "0", "3", "-", "0", "9">>
D_2024_03_10 == <<"2", "0", "2", "4", "-", "0", "3", "-", "1", "0">>
D_2024_03_11 == <<"2", "0", "2", "4", "-", "0", "3", "-", "1", "1">>
D_2024_03_31 == <<"2", "0", "2", "4", "-", "0", "3", "-", "3", "1">>

\* Days around the spring change of the American zones (03-10) and of London
\* (03-31), and a day far from both.
LocalDates == {D_2024_03_09, D_2024_03_10, D_2024_03_11, D_2024_03_15, D_2024_03_31}

LocalTimestamps ==
    {LocalTime(d, h, m, 0) : d \in LocalDates, h \in 0..23, m \in {0, 30}}

Timezones == {AirportTable[i].timezone : i \in 1..Len(AirportTable)}

\* utcToLocalTime(localTimeToUTC(localTimeString, timezone), timezone)
CallRoundTrip ==
    /\ call = NoCall
    /\ \E localTimeString \in LocalTimestamps, timezone \in Timezones :
          LET utc == localTimeToUTC(localTimeString, timezone)
          IN  call' = [fn |-> "roundTrip", localTimeString |-> localTimeString,
                       timezone |-> timezone, utc |-> utc,
                       result |-> utcToLocalTime(utc, timezone)]
    /\ UNCHANGED <<pc, loads, flightData, store, response, httpResponse>>

NextDates == CallRoundTrip \/ Return

SpecDates == Init /\ [][NextDates]_vars

\* Some instant shows this wall clock in the zone (the hour skipped by a
\* forward change shows at no instant).
WallExists(wall, tz) ==
    \E off \in {ZoneRule(tz).std, ZoneRule(tz).dst} : TzOffset(tz, wall - off) = off

\* C22: a local timestamp that exists in the zone, converted to an instant and
\* formatted back in that zone, shows the original date and time.
C22_RoundTrip ==
    (/\ call.fn = "roundTrip"
     /\ WallExists(parseISO(call.localTimeString), call.timezone))
        => call.result.wall = parseISO(call.localTimeString)

\* C23: a search whose origin is well-formed but not in the airport table is
\* answered with status 404, code NOT_FOUND and the message "Invalid origin
\* airport code: <code>".
C23_UnknownOriginIs404 ==
    (/\ pc = "responding"
     /\ response.searchParams.origin \notin DOMAIN airportMap)
        => /\ httpResponse.statusCode = 404
           /\ httpResponse.code = "NOT_FOUND"
           /\ httpResponse.message
                = <<"Invalid", "origin", "airport", "code:", response.searchParams.origin>>

\* While the server listens or answers, the one load has completed: the
\* document is parsed, its airports are all in the table and its flights are
\* all enriched.
ServingFromLoadedStore ==
    pc \in {"listening", "responding"} =>
        /\ loads = 1
        /\ flightData # NULL
        /\ DOMAIN airportMap = TableCodes(flightData)
        /\ Len(flightsWithMetadata) = Len(flightData.flights)

\* The process listens only from a completed load, answers only while
\* listening, and once exited stays exited.
StartupOrder ==
    /\ (pc # "listening" /\ pc' = "listening") => pc \in {"loaded", "responding"}
    /\ (pc # "loaded" /\ pc' = "loaded") =>
          /\ pc = "init"
          /\ flightData' # NULL
          /\ Len(flightsWithMetadata') = Len(flightData'.flights)
    /\ (pc # "responding" /\ pc' = "responding") => pc = "listening"
    /\ pc = "exited" => pc' = "exited"

\* C24: the server listens only after loadData has completed; when loadData
\* throws the process exits and never listens, so every search is answered
\* from a completely loaded store.
C24_ListenOnlyAfterLoad == []ServingFromLoadedStore /\ [][StartupOrder]_vars

\* The process has exited on a load that threw half way: the airport table is
\* filled, no flight is enriched, and nothing was ever answered.
C24_Witness ==
    /\ pc = "exited"
    /\ loads = 1
    /\ DOMAIN airportMap # {}
    /\ flightsWithMetadata = <<>>
    /\ response = NoResponse
    /\ httpResponse = NoHttpResponse

\* The failure the first failing check of a search gives, "none" if none fails.
FirstFailure(origin, destination, date) ==
    IF origin \notin DOMAIN airportMap THEN "Invalid origin airport code"
    ELSE IF destination \notin DOMAIN airportMap THEN "Invalid destination airport code"
    ELSE IF origin = destination THEN "Origin and destination must be different"
    ELSE IF ~MatchesDateRegex(date) THEN "Invalid date format. Expected YYYY-MM-DD"
    ELSE "none"

\* C25: the first failing check, in the order unknown origin, unknown
\* destination, same airport, malformed date, decides the failure of a search;
\* the same unknown code as origin and destination fails as unknown origin,
\* and the same-airport failure is raised only for a code of the table.
C25_ValidationOrder ==
    response.status # "none" =>
        LET p == response.searchParams
            expected == FirstFailure(p.origin, p.destination, p.date)
        IN  /\ expected = "none" <=> Returned
            /\ expected # "none" =>
                  response.status = "thrown" /\ response.message = expected
            /\ (p.origin = p.destination /\ p.origin \notin DOMAIN airportMap /\ ~Returned)
                  => response.message = "Invalid origin airport code"
            /\ (~Returned /\ response.message = "Origin and destination must be different")
                  => p.origin \in DOMAIN airportMap

\* A search from an unknown code to the same code with a malformed date failed
\* as an unknown origin.
C25_Witness ==
    /\ response.status = "thrown"
    /\ response.searchParams.origin = UnknownCode
    /\ response.searchParams.destination = UnknownCode
    /\ ~MatchesDateRegex(response.searchParams.date)
    /\ response.message = "Invalid origin airport code"

\* The flight numbers of a list of flights, in order.
NumbersOf(flights) == [i \in 1..Len(flights) |-> flights[i].flightNumber]

\* C26: after the one successful load every dataset flight is exactly once in
\* the origin bucket of its origin and in the destination bucket of its
\* destination and in no other bucket of those two indices, every bucket
\* lists its flights in dataset order, and getStats().totalFlights is the
\* number of flights of the dataset.
C26_IndicesPartitionDataset ==
    pc \in {"loaded", "listening", "responding"} =>
        LET D == flightData.flights
        IN  /\ \A i \in 1..Len(D) :
                  /\ \A k \in DOMAIN flightsByOrigin :
                        Occurrences(NumbersOf(flightsByOrigin[k]), D[i].flightNumber)
                          = IF k = D[i].origin THEN 1 ELSE 0
                  /\ \A k \in DOMAIN flightsByDestination :
                        Occurrences(NumbersOf(flightsByDestination[k]), D[i].flightNumber)
                          = IF k = D[i].destination THEN 1 ELSE 0
                  /\ D[i].origin \in DOMAIN flightsByOrigin
                  /\ D[i].destination \in DOMAIN flightsByDestination
            /\ \A k \in DOMAIN flightsByOrigin :
                  NumbersOf(flightsByOrigin[k])
                    = NumbersOf(SelectSeq(D, LAMBDA f : f.origin = k))
            /\ \A k \in DOMAIN flightsByDestination :
                  NumbersOf(flightsByDestination[k])
                    = NumbersOf(SelectSeq(D, LAMBDA f : f.destination = k))
            /\ getStats.totalFlights = Len(D)

\* A loaded store with an origin bucket and a destination bucket of several
\* flights each, from a file of four flights.
C26_Witness ==
    /\ pc = "loaded"
    /\ getStats.totalFlights = MaxFlights
    /\ \E k \in DOMAIN flightsByOrigin : Len(flightsByOrigin[k]) >= 2
    /\ \E k \in DOMAIN flightsByDestination : Len(flightsByDestination[k]) >= 2

\* C27: after a loadData call that threw, isDataLoaded() is false and the
\* health endpoint reports dataLoaded false.
C27_NotLoadedAfterFailedLoad ==
    (loads >= 1 /\ pc = "exited") =>
        /\ ~isDataLoaded
        /\ ~healthCheck.dataLoaded

\* C28: every returned itinerary starts at the search origin, ends at the search
\* destination, and none of its segments but the last lands at the destination.
C28_EndsAndOnlyEndsAtDestination ==
    Returned =>
        \A k \in 1..Len(response.itineraries) :
            LET segs == response.itineraries[k].segments
            IN  /\ segs[1].origin = response.searchParams.origin
                /\ segs[Len(segs)].destination = response.searchParams.destination
                /\ \A i \in 1..(Len(segs) - 1) :
                      segs[i].destination # response.searchParams.destination

\* A search returned a one-stop itinerary while the store holds a chain of
\* three connecting flights from the origin that passes through the
\* destination and comes back to it.
C28_Witness ==
    /\ Returned
    /\ \E k \in 1..Len(Itineraries) : Itineraries[k].stops = 1
    /\ \E a, b, c \in 1..Len(flightsWithMetadata) :
          LET F == flightsWithMetadata
          IN  /\ F[a].origin = response.searchParams.origin
              /\ F[a].departureTime.date = response.searchParams.date
              /\ F[a].destination = response.searchParams.destination
              /\ F[c].destination = response.searchParams.destination
              /\ Connects(F[a], F[b])
              /\ Connects(F[b], F[c])

\* C29: no returned itinerary has the same dataset flight in two segments.
C29_NoFlightTwice ==
    Returned =>
        \A k \in 1..Len(response.itineraries) :
            LET segs == response.itineraries[k].segments
            IN  \A i, j \in 1..Len(segs) :
                    i # j => segs[i].flightNumber # segs[j].flightNumber

\* A search returned a two-stop itinerary from a store holding a flight from the
\* origin back to the origin that lands before it departs, and so connects to
\* itself.
C29_Witness ==
    /\ Returned
    /\ \E k \in 1..Len(Itineraries) : Itineraries[k].stops = 2
    /\ \E a \in 1..Len(flightsWithMetadata) :
          LET f == flightsWithMetadata[a]
          IN  /\ f.origin = response.searchParams.origin
              /\ f.destination = f.origin
              /\ f.durationMinutes < 0
              /\ Connects(f, f)

\* The loaded flight a segment was made from.
FlightOf(segment) == flightsWithMetadata[PositionOf(segment.flightNumber)]

====
